---- MODULE Spec2Model ----
(***************************************************************************)
(* Cape Town traffic optimization: a model of                              *)
(*   - the routing core of spec.md (Road Network Graph, Live Weight Store, *)
(*     Route Search Engine, Query Coordinator), the service behind         *)
(*     POST /api/routes/optimize (backend/main.py), as spec.md sections 3  *)
(*     to 5 define it;                                                     *)
(*   - RoutePlanner.planRoute, the caller of POST /api/routes/optimize     *)
(*     (frontend/src/components/RoutePlanner.tsx);                         *)
(*   - TrafficDataProvider, the live traffic store of the frontend         *)
(*     (contexts/TrafficDataContext.tsx), also under a feed of readings    *)
(*     that repeats, reorders and misreports;                              *)
(*   - TrafficAnalytics and PredictionDashboard, the generators of the     *)
(*     analytics screens (components/TrafficAnalytics.tsx);                *)
(*   - start_demo.sh and the connection indicator of the App shell.        *)
(***************************************************************************)
EXTENDS Integers, Sequences, FiniteSets, TLC

VARIABLES
    \* Live Weight Store and Query Coordinator
    weights,        \* edge id -> raw congestion weight of the live entry
    request,        \* the last PlanRoute request
    response,       \* its result
    repeatOf,       \* the result of the same request made just before, if any
    \* RoutePlanner component
    origin, destination, routeResult, loading, error,
    pc,             \* where the running planRoute invocation is suspended
    endpointIdx,    \* index (1..3) of the endpoint of the current iteration
    net,            \* whether the endpoint contacted will ever answer
    body,           \* the body of the response whose json() is awaited
    contacted,      \* the requests the last planRoute invocation sent, in order
    \* TrafficDataProvider
    trafficData,    \* the committed React state, what every reader sees
    updateQueue,    \* state updates enqueued and not yet rendered
    now,            \* wall clock
    expected,       \* history: segment id -> point the calls so far lead to
    lastSample,     \* history: segment id -> time its last point was submitted
    \* TrafficAnalytics and PredictionDashboard
    clock,          \* the hour new Date().getHours() returns
    insights,       \* TrafficAnalytics: the insights shown
    predictions,    \* PredictionDashboard: one prediction per road
    hourlyData,     \* PredictionDashboard: the hourly forecast
    selectedTimeframe,
    predictionsLoading,
    \* start_demo.sh and the App shell
    scriptPc,       \* the command start_demo.sh is at
    attempt,        \* check_service: local attempt
    sleepFor,       \* check_service: seconds of the last sleep
    ready,          \* service -> what check_service returned for it
    banner,         \* the "is ready!" banner was printed
    connectionStatus,
    timerArmed,     \* App: the setTimeout of the mount effect is pending
    upstream,       \* whether the backend connection is up
    \* TrafficMap
    mapTrafficData, \* TrafficMap: its own trafficData state
    mapCenter,
    fetchRun,       \* run of fetchTrafficData -> where it is suspended
    \* RoutePlanner: the loader of the destination list
    destinations,
    destPc, destIdx, destBody,
    destLog         \* how the requests of the last fetchDestinations run ended

EngineVars == <<weights, request, response, repeatOf>>
PlannerVars ==
    <<origin, destination, routeResult, loading, error, pc, endpointIdx, net, body, contacted>>
StoreVars == <<trafficData, updateQueue, now, expected, lastSample>>
AnalyticsVars ==
    <<clock, insights, predictions, hourlyData, selectedTimeframe, predictionsLoading>>
DemoVars ==
    <<scriptPc, attempt, sleepFor, ready, banner, connectionStatus, timerArmed, upstream>>
MapVars == <<mapTrafficData, mapCenter, fetchRun>>
DestVars == <<destinations, destPc, destIdx, destBody, destLog>>
vars ==
    <<weights, request, response, repeatOf,
      origin, destination, routeResult, loading, error, pc, endpointIdx, net, body, contacted,
      trafficData, updateQueue, now, expected, lastSample,
      clock, insights, predictions, hourlyData, selectedTimeframe, predictionsLoading,
      scriptPc, attempt, sleepFor, ready, banner, connectionStatus, timerArmed, upstream,
      mapTrafficData, mapCenter, fetchRun,
      destinations, destPc, destIdx, destBody, destLog>>

(***************************************************************************)
(* Road Network Graph (spec.md 3, 4.1).  The network of the concrete      *)
(* scenarios A, B and D: A->B directly (cost 10) or via C (4 + 4), and a   *)
(* second subgraph D, E, G with no edge to or from the first.  Positions   *)
(* are in km on a grid.                                                    *)
(***************************************************************************)
Nodes == {"A", "B", "C", "D", "E", "G"}

NodeOrder == <<"A", "B", "C", "D", "E", "G">>

NodePos ==
    [A |-> [x |-> 0, y |-> 0], B |-> [x |-> 4, y |-> 0], C |-> [x |-> 2, y |-> 1],
     D |-> [x |-> 0, y |-> 6], E |-> [x |-> 4, y |-> 6], G |-> [x |-> 2, y |-> 7]]

EdgeSeq ==
    <<[id |-> "AB", src |-> "A", dst |-> "B", cost |-> 10, dist |-> 4],
      [id |-> "AC", src |-> "A", dst |-> "C", cost |-> 4, dist |-> 3],
      [id |-> "CB", src |-> "C", dst |-> "B", cost |-> 4, dist |-> 3],
      [id |-> "DE", src |-> "D", dst |-> "E", cost |-> 8, dist |-> 4],
      [id |-> "DG", src |-> "D", dst |-> "G", cost |-> 4, dist |-> 3],
      [id |-> "GE", src |-> "G", dst |-> "E", cost |-> 4, dist |-> 3]>>

Edges == {EdgeSeq[i] : i \in 1..Len(EdgeSeq)}

EdgeIds == {e.id : e \in Edges}

EdgeOf(id) == CHOOSE e \in Edges : e.id = id

Rank(n) == CHOOSE i \in 1..Len(NodeOrder) : NodeOrder[i] = n

\* Neighbors(NodeID): the ordered sequence of outgoing edges
Neighbors(n) == SelectSeq(EdgeSeq, LAMBDA e : e.src = n)

OutEdges(n) == {Neighbors(n)[i] : i \in 1..Len(Neighbors(n))}

MaxSnapDistance == 2

NoNode == "none"

SqDist(p, q) == (p.x - q.x) * (p.x - q.x) + (p.y - q.y) * (p.y - q.y)

\* NearestNode(coordinate): the closest node, the first in node order on a tie
NearestNode(c) ==
    CHOOSE n \in Nodes : \A m \in Nodes \ {n} :
        \/ SqDist(NodePos[n], c) < SqDist(NodePos[m], c)
        \/ SqDist(NodePos[n], c) = SqDist(NodePos[m], c) /\ Rank(n) < Rank(m)

ResolveNoLimit(c) == NearestNode(c)

\* Query Coordinator, step 1: the nearest node, unless it is farther than the
\* maximum snap distance
Resolve(c) ==
    IF SqDist(NodePos[NearestNode(c)], c) > MaxSnapDistance * MaxSnapDistance
    THEN NoNode
    ELSE NearestNode(c)

(***************************************************************************)
(* Live Weight Store (spec.md 4.2).                                        *)
(***************************************************************************)
MaxCongestionMultiplier == 4

Clamp(w, lo, hi) == IF w < lo THEN lo ELSE IF w > hi THEN hi ELSE w

EffectiveCostBySpeedRatio(e, w) ==
    (e.cost * MaxCongestionMultiplier) \div Clamp(w, 1, MaxCongestionMultiplier)

\* Effective edge cost = freeFlowCost * clamp(weight, 1.0, maxCongestionMultiplier)
EffectiveCost(e, w) == e.cost * Clamp(w, 1, MaxCongestionMultiplier)

\* Snapshot(): a copy of all entries at one instant
Snapshot(store) == [id \in EdgeIds |-> store[id]]

\* The static lookup table of the ingestion pipeline: segment identifier -> edge
SegmentEdge == [CT_001 |-> "AB", CT_002 |-> "CB", CT_003 |-> "DG"]

SegmentIds == DOMAIN SegmentEdge

\* The weights a fold can leave in an entry: faster than free flow, free flow,
\* the 3.0 of scenario B, and beyond the maximum multiplier
SampleWeights == {0, 1, 3, 5}

(***************************************************************************)
(* Route Search Engine (spec.md 4.4): Dijkstra over the costs of one       *)
(* snapshot, labels ordered by (cost, number of edges, distance).          *)
(***************************************************************************)
\* The expanded-node budget of one search; the network above is smaller
ExpandBudget == 16

PenaltyFactor == 2

MaxAlternatives == 3

Unreached == [cost |-> -1, hops |-> 0, dist |-> 0, path |-> <<>>]

\* Tie-break policy: equal cost -> fewer edges -> lower total distance
Better(a, b) ==
    \/ b.cost < 0
    \/ a.cost < b.cost
    \/ a.cost = b.cost /\ a.hops < b.hops
    \/ a.cost = b.cost /\ a.hops = b.hops /\ a.dist < b.dist

\* The cost function the options select; the edges of `penalized` cost more
CostFn(snap, opts, penalized) ==
    [id \in EdgeIds |->
        (IF opts.optimize_for = "distance"
         THEN EdgeOf(id).dist
         ELSE EffectiveCost(EdgeOf(id), snap[id]))
        * (IF id \in penalized THEN PenaltyFactor ELSE 1)]

ExtendReversed(l, e, costOf) ==
    [cost |-> l.cost + costOf[e.id], hops |-> l.hops + 1,
     dist |-> l.dist + e.dist, path |-> <<e.id>> \o l.path]

Extend(l, e, costOf) ==
    [cost |-> l.cost + costOf[e.id], hops |-> l.hops + 1,
     dist |-> l.dist + e.dist, path |-> Append(l.path, e.id)]

RelaxOverwrite(label, settled, u, costOf) ==
    [n \in Nodes |->
        LET es == {e \in OutEdges(u) : e.dst = n}
        IN  IF es = {} \/ n \in settled THEN label[n]
            ELSE Extend(label[u], CHOOSE e \in es : TRUE, costOf)]

\* Relax the edges leaving u
Relax(label, settled, u, costOf) ==
    [n \in Nodes |->
        LET es == {e \in OutEdges(u) : e.dst = n}
        IN  IF es = {} \/ n \in settled THEN label[n]
            ELSE LET cand == Extend(label[u], CHOOSE e \in es : TRUE, costOf)
                 IN  IF Better(cand, label[n]) THEN cand ELSE label[n]]

SearchResult(status, l) ==
    [status |-> status, cost |-> l.cost, hops |-> l.hops, dist |-> l.dist, path |-> l.path]

RECURSIVE Expand(_, _, _, _, _)
Expand(label, settled, dst, costOf, budget) ==
    LET open == {n \in Nodes \ settled : label[n].cost >= 0}
    IN  IF open = {} THEN SearchResult("NoRouteFound", Unreached)
        ELSE LET u == CHOOSE n \in open : \A m \in open \ {n} :
                          \/ Better(label[n], label[m])
                          \/ ~Better(label[m], label[n]) /\ Rank(n) < Rank(m)
             IN  IF u = dst THEN SearchResult("ok", label[u])
                 ELSE IF budget = 0 THEN SearchResult("RouteSearchTimeout", Unreached)
                 ELSE Expand(Relax(label, settled, u, costOf), settled \cup {u},
                             dst, costOf, budget - 1)

Search(src, dst, costOf) ==
    Expand([n \in Nodes |-> IF n = src
                            THEN [cost |-> 0, hops |-> 0, dist |-> 0, path |-> <<>>]
                            ELSE Unreached],
           {}, dst, costOf, ExpandBudget)

(***************************************************************************)
(* Query Coordinator (spec.md 4.5).                                        *)
(***************************************************************************)
RECURSIVE SumOver(_, _)
SumOver(path, f) == IF path = <<>> THEN 0 ELSE f[Head(path)] + SumOver(Tail(path), f)

\* A Route: its edges, total cost, total distance and, per edge, the congestion
\* weight at snapshot time
MakeRoute(path, snap, opts) ==
    [edges |-> path,
     total_cost |-> SumOver(path, CostFn(snap, opts, {})),
     total_distance |-> SumOver(path, [id \in EdgeIds |-> EdgeOf(id).dist]),
     breakdown |-> [i \in 1..Len(path) |-> Clamp(snap[path[i]], 1, MaxCongestionMultiplier)]]

EdgesOf(routes) == UNION {{routes[i].edges[j] : j \in 1..Len(routes[i].edges)} : i \in 1..Len(routes)}

\* Multi-route mode: penalize the edges of the routes found and search again
RECURSIVE Alternatives(_, _, _, _, _)
Alternatives(found, on, dn, snap, opts) ==
    IF Len(found) >= MaxAlternatives THEN found
    ELSE LET s == Search(on, dn, CostFn(snap, opts, EdgesOf(found)))
         IN  IF s.status # "ok" \/ \E i \in 1..Len(found) : found[i].edges = s.path
             THEN found
             ELSE Alternatives(Append(found, MakeRoute(s.path, snap, opts)), on, dn, snap, opts)

ErrorResult(reason) == [status |-> "error", reason |-> reason, routes |-> <<>>]

EmptyRouteOnFailure(on, dn, snap, opts) ==
    LET s == Search(on, dn, CostFn(snap, opts, {}))
    IN  [status |-> "ok", reason |-> "none", routes |-> <<MakeRoute(s.path, snap, opts)>>]

\* Search over one snapshot, the outcome as a structured result
RouteOrError(on, dn, snap, opts) ==
    LET s == Search(on, dn, CostFn(snap, opts, {}))
        best == MakeRoute(s.path, snap, opts)
    IN  IF s.status # "ok" THEN ErrorResult(s.status)
        ELSE [status |-> "ok", reason |-> "none",
              routes |-> IF opts.alternatives
                         THEN Alternatives(<<best>>, on, dn, snap, opts)
                         ELSE <<best>>]

\* PlanRoute(originCoord, destCoord, options) -> Route | error
PlanRouteOutcome(oc, dc, opts, store) ==
    IF Resolve(oc) = NoNode \/ Resolve(dc) = NoNode
    THEN ErrorResult("UnresolvableLocation")
    ELSE RouteOrError(Resolve(oc), Resolve(dc), Snapshot(store), opts)

StoreAfterQueryPenalized(store, res) ==
    [id \in EdgeIds |->
        IF Len(res.routes) > 1 /\ id \in EdgesOf(<<res.routes[1]>>)
        THEN store[id] * PenaltyFactor
        ELSE store[id]]

\* Entries are mutated only by ingestion: a query leaves the store as it was
StoreAfterQuery(store, res) == store

QueryOrigins == {[x |-> 0, y |-> 0], [x |-> 0, y |-> 6], [x |-> 54, y |-> 0]}

QueryDestinations == {[x |-> 4, y |-> 1], [x |-> 4, y |-> 6], [x |-> 54, y |-> 0]}

QueryOptions ==
    {[optimize_for |-> "time", alternatives |-> FALSE],
     [optimize_for |-> "time", alternatives |-> TRUE],
     [optimize_for |-> "distance", alternatives |-> FALSE]}

NoRequest == [origin |-> [x |-> -1, y |-> -1], dest |-> [x |-> -1, y |-> -1],
              options |-> [optimize_for |-> "none", alternatives |-> FALSE]]

NoResponse == [status |-> "none", reason |-> "none", routes |-> <<>>]

EngineInit ==
    /\ weights = [id \in EdgeIds |-> 1]
    /\ request = NoRequest
    /\ response = NoResponse
    /\ repeatOf = NoResponse

\* ApplySample: the entry of the segment's edge is replaced as a whole
ApplySample(seg, w) ==
    /\ weights' = [weights EXCEPT ![SegmentEdge[seg]] = w]
    /\ request' = NoRequest
    /\ response' = NoResponse
    /\ repeatOf' = NoResponse

PlanRoute(oc, dc, opts) ==
    LET req == [origin |-> oc, dest |-> dc, options |-> opts]
        res == PlanRouteOutcome(oc, dc, opts, weights)
    IN  /\ request' = req
        /\ response' = res
        /\ repeatOf' = IF request = req THEN response ELSE NoResponse
        /\ weights' = StoreAfterQuery(weights, res)

(***************************************************************************)
(* RoutePlanner (frontend/src/components/RoutePlanner.tsx).                *)
(***************************************************************************)
NullDestination == [name |-> "null", lat |-> 0, lng |-> 0, type |-> "null"]

\* Three of the destinations of the selectors (degrees * 10000)
Destinations ==
    {[name |-> "V&A Waterfront", lat |-> -339017, lng |-> 184211, type |-> "shopping"],
     [name |-> "Cape Town International Airport", lat |-> -339685, lng |-> 186017, type |-> "transport"],
     [name |-> "Stellenbosch Wine Route", lat |-> -339321, lng |-> 188602, type |-> "tourism"]}

Endpoints ==
    <<"http://localhost:8000/api/routes/optimize",
      "/api/routes/optimize",
      "http://traffic-api:8000/api/routes/optimize">>

\* traffic_conditions?: any.  The field is absent, a string, or an object whose
\* status is a string or is absent
NoConditions == [shape |-> "undefined", status |-> "undefined"]

TrafficStatuses == {"light", "moderate", "heavy"}

TrafficConditions ==
    {NoConditions}
    \cup {[shape |-> "string", status |-> st] : st \in TrafficStatuses}
    \cup {[shape |-> "object", status |-> st] : st \in TrafficStatuses \cup {"undefined"}}

NullRoute == [status |-> "null", reason |-> "undefined", route_id |-> "undefined",
              has_locations |-> FALSE, traffic_conditions |-> NoConditions]

\* Bodies of the route query API: a route, or {status: "error", reason}
RoutePayloads ==
    {[status |-> "success", reason |-> "undefined", route_id |-> "optimized_route",
      has_locations |-> FALSE, traffic_conditions |-> tc] : tc \in TrafficConditions}

ErrorReasons == {"no drivable path found", "location outside coverage area", "search timed out"}

ErrorPayload(reason) ==
    [status |-> "error", reason |-> reason, route_id |-> "undefined", has_locations |-> FALSE,
     traffic_conditions |-> NoConditions]

\* What response.json() is awaited on: a parsable body or not
ResponseBodies ==
    {[valid |-> TRUE, data |-> d] : d \in RoutePayloads \cup {ErrorPayload(r) : r \in ErrorReasons}}
    \cup {[valid |-> FALSE, data |-> NullRoute]}

NoBody == [valid |-> FALSE, data |-> NullRoute]

\* Routes of the popular list, with and without start and end location
PopularRoutes ==
    {[status |-> "undefined", reason |-> "undefined", route_id |-> "airport_to_waterfront",
      has_locations |-> TRUE, traffic_conditions |-> [shape |-> "string", status |-> "moderate"]],
     [status |-> "undefined", reason |-> "undefined", route_id |-> "cbd_loop",
      has_locations |-> FALSE, traffic_conditions |-> NoConditions]}

\* {routeResult.traffic_conditions && (<Chip .../>)}: the chip of the route
\* details is rendered when there is a route result whose field is truthy
ChipShown(route) == route # NullRoute /\ route.traffic_conditions.shape # "undefined"

\* label: typeof tc === 'object' ? tc.status || 'moderate' : tc
ChipLabel(tc) ==
    IF tc.shape = "object"
    THEN IF tc.status = "undefined" THEN "moderate" ELSE tc.status
    ELSE tc.status

\* color: (typeof tc === 'object' ? tc.status : tc) === 'light' ? 'success'
\*          : (...) === 'moderate' ? 'warning' : 'error'
ChipColor(tc) ==
    IF tc.status = "light" THEN "success"
    ELSE IF tc.status = "moderate" THEN "warning"
    ELSE "error"

StartLocation(route) ==
    [name |-> "Cape Town International Airport", lat |-> -339685, lng |-> 186017, type |-> "selected"]

EndLocation(route) ==
    [name |-> "V&A Waterfront", lat |-> -339017, lng |-> 184211, type |-> "selected"]

\* A fetch either settles (resolves or rejects) or stays pending for ever:
\* planRoute passes no AbortSignal and sets no timer
NetBehaviours == {"answers", "silent"}

\* The record of one fetch(endpoint, ...) of planRoute and of how it ended:
\* "pending", "rejected" (fetch threw), "notOk" (response.ok false), "ok"
\* (response.ok true), "badJson" (response.ok true and json() threw)
Request(i) == [endpoint |-> Endpoints[i], outcome |-> "pending"]

\* The last request ended with `outcome`
Settled(log, outcome) == [log EXCEPT ![Len(log)].outcome = outcome]

PlannerInit ==
    /\ origin = NullDestination
    /\ destination = NullDestination
    /\ routeResult = NullRoute
    /\ loading = FALSE
    /\ error = "null"
    /\ pc = "idle"
    /\ endpointIdx = 1
    /\ net = "answers"
    /\ body = NoBody
    /\ contacted = <<>>

\* Autocomplete onChange of "From" and "To"
SelectOrigin(d) ==
    /\ origin' = d
    /\ UNCHANGED <<destination, routeResult, loading, error, pc, endpointIdx, net, body, contacted>>

SelectDestination(d) ==
    /\ destination' = d
    /\ UNCHANGED <<origin, routeResult, loading, error, pc, endpointIdx, net, body, contacted>>

selectPopularRoute(route) ==
    /\ routeResult' = route
    /\ IF route.has_locations
       THEN origin' = StartLocation(route) /\ destination' = EndLocation(route)
       ELSE UNCHANGED <<origin, destination>>
    /\ UNCHANGED <<loading, error, pc, endpointIdx, net, body, contacted>>

\* planRoute up to the first await.  It runs from the "Get Directions" button,
\* which is disabled while loading or without origin or destination, so the
\* early return of line 166 is never taken.
planRoute ==
    /\ pc = "idle" /\ ~loading
    /\ origin # NullDestination /\ destination # NullDestination
    /\ loading' = TRUE
    /\ error' = "null"
    /\ endpointIdx' = 1
    /\ pc' = "fetch"
    /\ net' \in NetBehaviours
    /\ contacted' = <<Request(1)>>
    /\ UNCHANGED <<origin, destination, routeResult, body>>

\* finally { setLoading(false) }
Finally == loading' = FALSE

RetrySameEndpoint ==
    /\ pc' = "fetch"
    /\ net' \in NetBehaviours
    /\ UNCHANGED <<endpointIdx, error, loading>>

\* The loop goes on: the next endpoint, or the code after the loop
TryNextEndpoint ==
    IF endpointIdx < Len(Endpoints)
    THEN /\ endpointIdx' = endpointIdx + 1
         /\ pc' = "fetch"
         /\ net' \in NetBehaviours
         /\ UNCHANGED <<error, loading>>
    ELSE /\ error' = "Route optimization service temporarily unavailable"
         /\ Finally
         /\ pc' = "idle"
         /\ UNCHANGED <<endpointIdx, net>>

\* The requests sent, after the last one ended with `outcome` and the loop went on
ContactedAfter(outcome) ==
    IF pc' = "fetch"
    THEN Append(Settled(contacted, outcome), Request(endpointIdx'))
    ELSE Settled(contacted, outcome)

\* fetch rejects: catch (err) { continue }
planRoute_fetchRejected ==
    /\ pc = "fetch" /\ net = "answers"
    /\ TryNextEndpoint
    /\ contacted' = ContactedAfter("rejected")
    /\ UNCHANGED <<origin, destination, routeResult, body>>

\* fetch resolves with response.ok false
planRoute_responseNotOk ==
    /\ pc = "fetch" /\ net = "answers"
    /\ TryNextEndpoint
    /\ contacted' = ContactedAfter("notOk")
    /\ UNCHANGED <<origin, destination, routeResult, body>>

\* fetch resolves with response.ok true: await response.json()
planRoute_responseOk(b) ==
    /\ pc = "fetch" /\ net = "answers"
    /\ pc' = "json"
    /\ body' = b
    /\ contacted' = Settled(contacted, "ok")
    /\ UNCHANGED <<origin, destination, routeResult, loading, error, endpointIdx, net>>

\* setRouteResult(data)
StoreRouteResult(data) == data

\* json() resolves: setRouteResult(data); return
planRoute_jsonResolved ==
    /\ pc = "json" /\ body.valid
    /\ routeResult' = StoreRouteResult(body.data)
    /\ Finally
    /\ pc' = "idle"
    /\ body' = NoBody
    /\ UNCHANGED <<origin, destination, error, endpointIdx, net, contacted>>

\* json() rejects: catch (err) { continue }
planRoute_jsonRejected ==
    /\ pc = "json" /\ ~body.valid
    /\ TryNextEndpoint
    /\ contacted' = ContactedAfter("badJson")
    /\ body' = NoBody
    /\ UNCHANGED <<origin, destination, routeResult>>

(***************************************************************************)
(* TrafficDataProvider (frontend/src/contexts/TrafficDataContext.tsx).     *)
(* useState keeps the committed array; a call of the setter enqueues an    *)
(* update, and React applies the queued updates in order when it renders.  *)
(***************************************************************************)
MaxQueue == 2

MaxTime == 3

\* Half-life of the decay of spec.md 4.2, in clock ticks
HalfLife == 1

StoreSegments == {"CT_001", "CT_002"}

\* congestion_level in percent; 0 is free flow
FreeFlowLevel == 0

CongestionLevels == {0, 80}

\* baseSpeed of a highway segment
BaseSpeed == 80

\* A TrafficData point as a sensor reports it: flow_speed follows from the
\* congestion level
Point(id, level, t) ==
    [road_segment_id |-> id,
     latitude |-> IF id = "CT_001" THEN -338992 ELSE -339769,
     longitude |-> IF id = "CT_001" THEN 186292 ELSE 185845,
     flow_speed |-> (BaseSpeed * (100 - level)) \div 100,
     congestion_level |-> level,
     timestamp |-> t]

NullPoint == Point("null", 0, -1)

WellFormed(p) ==
    \E id \in StoreSegments, level \in CongestionLevels, t \in 0..MaxTime : p = Point(id, level, t)

\* The points a sensor can submit at time t
FreshPoints(t) == {Point(id, level, t) : id \in StoreSegments, level \in CongestionLevels}

\* The staleness window of spec.md 4.3, in clock ticks
StalenessWindow == 1

\* A speed no vehicle can have
ImpossibleSpeed == 0 - 5

\* The congestion level of the readings of the feed, in percent
ReadingLevel == 80

\* The timestamps a reading that arrives at time t can carry: it arrives at
\* once, late within the staleness window, or later than the window
ReadingTimes(t) == {s \in 0..t : t - s <= StalenessWindow + 1}

\* The readings the upstream feed can deliver at time t.  The feed delivers at
\* least once and in no fixed order, and its sensors can misreport a speed.
Readings(t) ==
    {Point(id, ReadingLevel, s) : id \in StoreSegments, s \in ReadingTimes(t)}
    \cup {[Point(id, ReadingLevel, t) EXCEPT !.flow_speed = ImpossibleSpeed] : id \in StoreSegments}

\* The arrays setTrafficData can be called with at time t
FreshArrays(t) ==
    {<<>>} \cup {<<Point("CT_002", level, t), Point("CT_001", level, t)>> : level \in CongestionLevels}

\* prev.findIndex(p => p.road_segment_id === id); 0 stands for -1
FindIndex(prev, id) ==
    IF \E i \in 1..Len(prev) : prev[i].road_segment_id = id
    THEN CHOOSE i \in 1..Len(prev) :
            /\ prev[i].road_segment_id = id
            /\ \A j \in 1..(i - 1) : prev[j].road_segment_id # id
    ELSE 0

UpsertAppend(prev, point) == Append(prev, point)

UpsertMoveToEnd(prev, point) ==
    Append(SelectSeq(prev, LAMBDA p : p.road_segment_id # point.road_segment_id), point)

\* The updater of updateTrafficPoint: prev => ...
Upsert(prev, point) ==
    IF FindIndex(prev, point.road_segment_id) > 0
    THEN [prev EXCEPT ![FindIndex(prev, point.road_segment_id)] = point]
    ELSE Append(prev, point)

StaleClosureUpdate(point) ==
    [kind |-> "value", point |-> NullPoint, data |-> Upsert(trafficData, point)]

\* setTrafficData(prev => ...): a functional update
FunctionalUpdate(point) == [kind |-> "function", point |-> point, data |-> <<>>]

\* setTrafficData(data): a replacement
ValueUpdate(data) == [kind |-> "value", point |-> NullPoint, data |-> data]

ApplyUpdate(prev, u) == IF u.kind = "function" THEN Upsert(prev, u.point) ELSE u.data

\* React processing the update queue, first to last
RECURSIVE ProcessQueue(_, _)
ProcessQueue(state, queue) ==
    IF queue = <<>> THEN state
    ELSE ProcessQueue(ApplyUpdate(state, Head(queue)), Tail(queue))

StoreInit ==
    /\ trafficData = <<>>
    /\ updateQueue = <<>>
    /\ now = 0
    /\ expected = [id \in StoreSegments |-> NullPoint]
    /\ lastSample = [id \in StoreSegments |-> -1]

updateTrafficPoint(point) ==
    /\ Len(updateQueue) < MaxQueue
    /\ updateQueue' = Append(updateQueue, FunctionalUpdate(point))
    /\ expected' = [expected EXCEPT ![point.road_segment_id] = point]
    /\ lastSample' = [lastSample EXCEPT ![point.road_segment_id] = now]
    /\ UNCHANGED <<trafficData, now>>

setTrafficData(data) ==
    /\ Len(updateQueue) < MaxQueue
    /\ updateQueue' = Append(updateQueue, ValueUpdate(data))
    /\ expected' = [id \in StoreSegments |->
                      IF FindIndex(data, id) > 0 THEN data[FindIndex(data, id)] ELSE NullPoint]
    /\ lastSample' = [id \in StoreSegments |->
                      IF FindIndex(data, id) > 0 THEN now ELSE lastSample[id]]
    /\ UNCHANGED <<trafficData, now>>

\* React renders the provider: the queued updates become the committed state
Render ==
    /\ updateQueue # <<>>
    /\ trafficData' = ProcessQueue(trafficData, updateQueue)
    /\ updateQueue' = <<>>
    /\ UNCHANGED <<now, expected, lastSample>>

\* Time passes.  The provider starts no timer and no sweep.
Tick ==
    /\ now < MaxTime
    /\ now' = now + 1
    /\ UNCHANGED <<trafficData, updateQueue, expected, lastSample>>

(***************************************************************************)
(* TrafficAnalytics and PredictionDashboard                                *)
(* (frontend/src/components/TrafficAnalytics.tsx) and the mock generator   *)
(* of TrafficMap.  Fractions are kept in thousandths; Math.random() is a   *)
(* draw from a stream chosen by a seed.                                    *)
(***************************************************************************)
HoursPerDay == 24

\* Values Math.random() can return, in thousandths: it returns x with 0 <= x < 1
RandomSamples == <<0, 250, 500, 999>>

Seeds == 0..(Len(RandomSamples) - 1)

\* The n-th call of Math.random() in a run of a generator
Random(seed, n) == RandomSamples[((seed + n) % Len(RandomSamples)) + 1]

Min(a, b) == IF a <= b THEN a ELSE b

Max(a, b) == IF a >= b THEN a ELSE b

\* generateInsights and generatePredictions
IsRushHour(currentHour) ==
    (currentHour >= 7 /\ currentHour <= 9) \/ (currentHour >= 17 /\ currentHour <= 19)

IsRushTimeHalfOpen(hourNum) ==
    (hourNum >= 7 /\ hourNum < 9) \/ (hourNum >= 17 /\ hourNum < 19)

\* The loop of the hourly predictions
IsRushTime(hourNum) ==
    (hourNum >= 7 /\ hourNum <= 9) \/ (hourNum >= 17 /\ hourNum <= 19)

\* The text under "Current Conditions"
CurrentConditions(hour) ==
    IF hour >= 7 /\ hour <= 9 THEN "Morning rush hour - expect delays on highways"
    ELSE IF hour >= 17 /\ hour <= 19 THEN "Evening rush hour - heavy traffic expected"
    ELSE "Normal traffic conditions"

\* generateMockTrafficData of TrafficMap: the congestion level of a segment
MockCongestionLevel(currentHour, r) ==
    IF (currentHour >= 7 /\ currentHour <= 9) \/ (currentHour >= 17 /\ currentHour <= 19)
    THEN (r * 500) \div 1000 + 400
    ELSE IF currentHour >= 10 /\ currentHour <= 16
         THEN (r * 400) \div 1000 + 200
         ELSE (r * 300) \div 1000 + 100

\* The "Congestion Level" insight of mockInsights
MockInsights(currentHour) ==
    [metric |-> "Congestion Level",
     value |-> IF IsRushHour(currentHour) THEN "High" ELSE "Moderate",
     change |-> IF IsRushHour(currentHour) THEN 25 ELSE 0 - 10,
     trend |-> IF IsRushHour(currentHour) THEN "up" ELSE "down"]

NoInsights == [metric |-> "none", value |-> "none", change |-> 0, trend |-> "none"]

capeRoads == <<"CT_001", "CT_002", "CT_003", "CT_004", "CT_005", "CT_006", "CT_007", "CT_008">>

\* capeRoads.map(road => ...) for the k-th road; it draws three numbers
MockPrediction(k, seed) ==
    LET currentCongestion == (Random(seed, 3 * k - 2) * 800) \div 1000 + 100
        predictedChange == ((Random(seed, 3 * k - 1) - 500) * 400) \div 1000
        predictedCongestion == Max(100, Min(900, currentCongestion + predictedChange))
    IN  [road_segment_id |-> capeRoads[k],
         current_congestion |-> currentCongestion,
         predicted_congestion |-> predictedCongestion,
         confidence |-> (Random(seed, 3 * k) * 300) \div 1000 + 700,
         trend |-> IF predictedChange > 100 THEN "increasing"
                   ELSE IF predictedChange < 0 - 100 THEN "decreasing" ELSE "stable",
         risk_level |-> IF predictedCongestion > 700 THEN "high"
                        ELSE IF predictedCongestion > 400 THEN "medium" ELSE "low"]

HourlyCount == 12

HourAfterUnwrapped(currentHour, i) == currentHour + i

\* new Date(Date.now() + i * 60 * 60 * 1000).getHours(), in a zone whose offset
\* from UTC is fixed, as SAST is
HourAfter(currentHour, i) == (currentHour + i) % HoursPerDay

\* The body of for (let i = 0; i < 12; i++); it draws three numbers
HourlyPrediction(currentHour, i, seed) ==
    LET hourNum == HourAfter(currentHour, i)
        base == 3 * Len(capeRoads) + 3 * i
    IN  [hour |-> hourNum,
         avg_speed |-> IF IsRushTime(hourNum) THEN 25000 + Random(seed, base + 1) * 15
                       ELSE 40000 + Random(seed, base + 1) * 20,
         congestion_level |-> IF IsRushTime(hourNum) THEN 600 + (Random(seed, base + 2) * 300) \div 1000
                              ELSE 200 + (Random(seed, base + 2) * 300) \div 1000,
         confidence |-> (Random(seed, base + 3) * 200) \div 1000 + 800]

Timeframes == {"1hour", "6hours", "12hours"}

AnalyticsInit ==
    /\ clock = 0
    /\ insights = NoInsights
    /\ predictions = <<>>
    /\ hourlyData = <<>>
    /\ selectedTimeframe = "1hour"
    /\ predictionsLoading = TRUE

\* generateInsights: on mount of TrafficAnalytics and every 30 seconds
generateInsights ==
    /\ insights' = MockInsights(clock)
    /\ UNCHANGED <<clock, predictions, hourlyData, selectedTimeframe, predictionsLoading>>

\* generatePredictions: on mount of PredictionDashboard, every 2 minutes, and
\* when the effect runs again for a new timeframe
generatePredictions(seed) ==
    /\ predictions' = [k \in 1..Len(capeRoads) |-> MockPrediction(k, seed)]
    /\ hourlyData' = [n \in 1..HourlyCount |-> HourlyPrediction(clock, n - 1, seed)]
    /\ predictionsLoading' = FALSE
    /\ UNCHANGED <<clock, insights>>

\* The effect of mount and the interval
RunGeneratePredictions(seed) ==
    /\ generatePredictions(seed)
    /\ UNCHANGED selectedTimeframe

\* onChange of the Timeframe select; the effect depends on selectedTimeframe
\* and runs generatePredictions again
SelectTimeframe(tf, seed) ==
    /\ tf # selectedTimeframe
    /\ selectedTimeframe' = tf
    /\ generatePredictions(seed)

\* The hour of the wall clock changes
HourPasses ==
    /\ clock' = (clock + 1) % HoursPerDay
    /\ UNCHANGED <<insights, predictions, hourlyData, selectedTimeframe, predictionsLoading>>

(***************************************************************************)
(* start_demo.sh, from "Wait for services to be ready" on, and the         *)
(* connection indicator of the App shell (frontend/src/App.tsx).           *)
(***************************************************************************)
max_attempts == 30

\* sleep 2
SleepSeconds == 2

Services == <<"Frontend (React)", "Backend (FastAPI)">>

\* The commands of the script after docker-compose up -d are "check_frontend",
\* "check_backend", "banner" and "end".  The service a check_service call polls
ServiceAt(step) == IF step = "check_frontend" THEN Services[1] ELSE Services[2]

NextStep(step) ==
    IF step = "check_frontend" THEN "check_backend"
    ELSE IF step = "check_backend" THEN "banner"
    ELSE "end"

Checking == scriptPc \in {"check_frontend", "check_backend"}

DemoInit ==
    /\ scriptPc = "check_frontend"
    /\ attempt = 1
    /\ sleepFor = 0
    /\ ready = [sv \in {Services[1], Services[2]} |-> "unknown"]
    /\ banner = FALSE
    /\ connectionStatus = "connecting"
    /\ timerArmed = TRUE
    /\ upstream = "up"

\* check_service: curl succeeds; echo "... is ready"; return 0.  The script
\* goes on with its next command, where attempt is a fresh local.
check_service_ready ==
    /\ Checking /\ attempt <= max_attempts
    /\ ready' = [ready EXCEPT ![ServiceAt(scriptPc)] = "ready"]
    /\ scriptPc' = NextStep(scriptPc)
    /\ attempt' = 1
    /\ sleepFor' = 0
    /\ UNCHANGED <<banner, connectionStatus, timerArmed, upstream>>

\* check_service: curl fails; echo "Attempt ..."; sleep 2; ((attempt++))
check_service_wait ==
    /\ Checking /\ attempt <= max_attempts
    /\ sleepFor' = SleepSeconds
    /\ attempt' = attempt + 1
    /\ UNCHANGED <<scriptPc, ready, banner, connectionStatus, timerArmed, upstream>>

\* check_service: the loop is over; echo "... failed to start"; return 1.  The
\* script does not look at the return value and goes on.
check_service_failed ==
    /\ Checking /\ attempt > max_attempts
    /\ ready' = [ready EXCEPT ![ServiceAt(scriptPc)] = "failed"]
    /\ scriptPc' = NextStep(scriptPc)
    /\ attempt' = 1
    /\ sleepFor' = 0
    /\ UNCHANGED <<banner, connectionStatus, timerArmed, upstream>>

\* echo "... Cape Town Traffic Optimization Engine is ready!"
PrintBanner ==
    /\ scriptPc = "banner"
    /\ banner' = TRUE
    /\ scriptPc' = NextStep(scriptPc)
    /\ UNCHANGED <<attempt, sleepFor, ready, connectionStatus, timerArmed, upstream>>

\* App: the timer of the mount effect fires: setConnectionStatus('connected')
ConnectionTimerFires ==
    /\ timerArmed
    /\ connectionStatus' = "connected"
    /\ timerArmed' = FALSE
    /\ UNCHANGED <<scriptPc, attempt, sleepFor, ready, banner, upstream>>

\* The connection to the backend is lost, or is back.  Nothing in App or in
\* WebSocketProvider listens to it.
UpstreamChanges ==
    /\ upstream' = IF upstream = "up" THEN "down" ELSE "up"
    /\ UNCHANGED <<scriptPc, attempt, sleepFor, ready, banner, connectionStatus, timerArmed>>

(***************************************************************************)
(* TrafficMap (frontend/src/components/TrafficMap.tsx): fetchTrafficData,  *)
(* generateMockTrafficData and the effect that sets the map center.        *)
(* Coordinates are kept in 1/10000 of a degree.                            *)
(***************************************************************************)
DEFAULT_CENTER == [lat |-> 0 - 339249, lng |-> 184241]

DEFAULT_BOUNDS ==
    [south |-> 0 - 340928, west |-> 182844, north |-> 0 - 338567, east |-> 186230]

capeTownSegments ==
    <<[id |-> "CT_001", lat |-> 0 - 338992, lng |-> 186292, highway |-> TRUE],
      [id |-> "CT_002", lat |-> 0 - 339769, lng |-> 185845, highway |-> TRUE],
      [id |-> "CT_003", lat |-> 0 - 339731, lng |-> 184632, highway |-> TRUE],
      [id |-> "CT_004", lat |-> 0 - 339249, lng |-> 184241, highway |-> FALSE],
      [id |-> "CT_005", lat |-> 0 - 339205, lng |-> 184235, highway |-> FALSE],
      [id |-> "CT_006", lat |-> 0 - 338927, lng |-> 185408, highway |-> FALSE],
      [id |-> "CT_007", lat |-> 0 - 339149, lng |-> 183796, highway |-> FALSE],
      [id |-> "CT_008", lat |-> 0 - 339508, lng |-> 183776, highway |-> FALSE],
      [id |-> "CT_009", lat |-> 0 - 339317, lng |-> 184145, highway |-> FALSE],
      [id |-> "CT_010", lat |-> 0 - 339570, lng |-> 184709, highway |-> FALSE]>>

\* The body of capeTownSegments.forEach for the k-th segment; it draws three
\* numbers.  Math.round(x * 100) / 100 rounds the level to hundredths.
MockTrafficPoint(k, currentHour, seed) ==
    LET segment == capeTownSegments[k]
        congestionLevel == MockCongestionLevel(currentHour, Random(seed, 3 * k - 2))
        baseSpeed == IF segment.highway THEN 80 ELSE 50
    IN  [road_segment_id |-> segment.id,
         latitude |-> segment.lat + ((Random(seed, 3 * k - 1) - 500) * 20) \div 1000,
         longitude |-> segment.lng + ((Random(seed, 3 * k) - 500) * 20) \div 1000,
         flow_speed |-> (baseSpeed * (1000 - congestionLevel) + 500) \div 1000,
         congestion_level |-> ((congestionLevel + 5) \div 10) * 10,
         timestamp |-> currentHour]

generateMockTrafficData(currentHour, seed) ==
    [k \in 1..Len(capeTownSegments) |-> MockTrafficPoint(k, currentHour, seed)]

\* A point of the traffic API
ApiPoint(id, lat, lng) ==
    [road_segment_id |-> id, latitude |-> lat, longitude |-> lng,
     flow_speed |-> 40, congestion_level |-> 500, timestamp |-> 0]

\* Lists /api/traffic/current can answer with: two sensors of the city bowl,
\* the Bellville sensor alone, a sensor of another city, no sensor
TrafficLists ==
    {<<ApiPoint("CT_004", 0 - 339249, 184241), ApiPoint("CT_005", 0 - 339205, 184235)>>,
     <<ApiPoint("CT_001", 0 - 338992, 186292)>>,
     <<ApiPoint("JHB_001", 0 - 262041, 280473)>>,
     <<>>}

\* What response.json() is awaited on: a body that does not parse, a body
\* without traffic_data, a body with a list
MapBodies ==
    {[valid |-> FALSE, has_list |-> FALSE, traffic_data |-> <<>>],
     [valid |-> TRUE, has_list |-> FALSE, traffic_data |-> <<>>]}
    \cup {[valid |-> TRUE, has_list |-> TRUE, traffic_data |-> l] : l \in TrafficLists}

NoMapBody == [valid |-> FALSE, has_list |-> FALSE, traffic_data |-> <<>>]

MapEndpoints ==
    <<"http://localhost:8000/api/traffic/current",
      "/api/traffic/current",
      "http://traffic-api:8000/api/traffic/current">>

\* The runs of fetchTrafficData that can be in flight together: the one of the
\* mount effect and one of the 30 s interval, which does not wait for it
FetchRuns == {"mount", "interval"}

IdleRun == [pc |-> "idle", idx |-> 1, body |-> NoMapBody]

RECURSIVE SumLat(_)
SumLat(data) == IF data = <<>> THEN 0 ELSE Head(data).latitude + SumLat(Tail(data))

RECURSIVE SumLng(_)
SumLng(data) == IF data = <<>> THEN 0 ELSE Head(data).longitude + SumLng(Tail(data))

\* [latSum / length, lngSum / length]
Centroid(data) == [lat |-> SumLat(data) \div Len(data), lng |-> SumLng(data) \div Len(data)]

\* centerLat >= -34.1 && centerLat <= -33.8 && centerLng >= 18.2 && centerLng <= 18.7
WithinCapeTown(data) ==
    /\ SumLat(data) >= (0 - 341000) * Len(data)
    /\ SumLat(data) <= (0 - 338000) * Len(data)
    /\ SumLng(data) >= 182000 * Len(data)
    /\ SumLng(data) <= 187000 * Len(data)

\* The effect "Update map center when traffic data loads"
CenterFor(data, center) ==
    IF Len(data) > 0
    THEN IF WithinCapeTown(data) THEN Centroid(data) ELSE DEFAULT_CENTER
    ELSE center

MapInit ==
    /\ mapTrafficData = <<>>
    /\ mapCenter = DEFAULT_CENTER
    /\ fetchRun = [r \in FetchRuns |-> IdleRun]

\* setTrafficData(data), and the effect that depends on trafficData
SetMapTrafficData(data) ==
    /\ mapTrafficData' = data
    /\ mapCenter' = CenterFor(data, mapCenter)

\* fetchTrafficData up to its first await: from the mount effect or the interval
fetchTrafficData(r) ==
    /\ fetchRun[r].pc = "idle"
    /\ fetchRun' = [fetchRun EXCEPT ![r] = [pc |-> "fetch", idx |-> 1, body |-> NoMapBody]]
    /\ UNCHANGED <<mapTrafficData, mapCenter>>

MapKeepOnExhaustion(r, seed) ==
    IF fetchRun[r].idx < Len(MapEndpoints)
    THEN /\ fetchRun' = [fetchRun EXCEPT ![r] = [pc |-> "fetch", idx |-> @.idx + 1, body |-> NoMapBody]]
         /\ UNCHANGED <<mapTrafficData, mapCenter>>
    ELSE /\ fetchRun' = [fetchRun EXCEPT ![r] = IdleRun]
         /\ UNCHANGED <<mapTrafficData, mapCenter>>

\* The loop goes on: the next endpoint, or after the loop
\* setTrafficData(generateMockTrafficData())
MapTryNextEndpoint(r, seed) ==
    IF fetchRun[r].idx < Len(MapEndpoints)
    THEN /\ fetchRun' = [fetchRun EXCEPT ![r] = [pc |-> "fetch", idx |-> @.idx + 1, body |-> NoMapBody]]
         /\ UNCHANGED <<mapTrafficData, mapCenter>>
    ELSE /\ fetchRun' = [fetchRun EXCEPT ![r] = IdleRun]
         /\ SetMapTrafficData(generateMockTrafficData(clock, seed))

\* fetch rejects: catch (err) { continue }
fetchTrafficData_fetchRejected(r, seed) ==
    /\ fetchRun[r].pc = "fetch"
    /\ MapTryNextEndpoint(r, seed)

\* fetch resolves with response.ok false: the next iteration
fetchTrafficData_responseNotOk(r, seed) ==
    /\ fetchRun[r].pc = "fetch"
    /\ MapTryNextEndpoint(r, seed)

\* fetch resolves with response.ok true: await response.json()
fetchTrafficData_responseOk(r, b) ==
    /\ fetchRun[r].pc = "fetch"
    /\ fetchRun' = [fetchRun EXCEPT ![r].pc = "json", ![r].body = b]
    /\ UNCHANGED <<mapTrafficData, mapCenter>>

\* json() resolves: a list with entries is stored and the run returns;
\* otherwise the next iteration
fetchTrafficData_jsonResolved(r, seed) ==
    /\ fetchRun[r].pc = "json" /\ fetchRun[r].body.valid
    /\ IF fetchRun[r].body.has_list /\ Len(fetchRun[r].body.traffic_data) > 0
       THEN /\ SetMapTrafficData(fetchRun[r].body.traffic_data)
            /\ fetchRun' = [fetchRun EXCEPT ![r] = IdleRun]
       ELSE MapTryNextEndpoint(r, seed)

\* json() rejects: catch (err) { continue }
fetchTrafficData_jsonRejected(r, seed) ==
    /\ fetchRun[r].pc = "json" /\ ~fetchRun[r].body.valid
    /\ MapTryNextEndpoint(r, seed)

(***************************************************************************)
(* RoutePlanner.fetchDestinations, the loader of the From/To selectors.    *)
(***************************************************************************)
Dest(name, lat, lng, type) == [name |-> name, lat |-> lat, lng |-> lng, type |-> type]

\* The list of setDestinations([...]) after the loop
FallbackDestinations ==
    <<Dest("V&A Waterfront", 0 - 339017, 184211, "shopping"),
      Dest("Table Mountain", 0 - 339628, 184098, "attraction"),
      Dest("Cape Town International Airport", 0 - 339685, 186017, "transport"),
      Dest("University of Cape Town", 0 - 339570, 184709, "education"),
      Dest("Cape Town CBD", 0 - 339249, 184241, "business"),
      Dest("Camps Bay Beach", 0 - 339508, 183776, "recreation"),
      Dest("Kirstenbosch Gardens", 0 - 339881, 184326, "attraction"),
      Dest("Stellenbosch Wine Route", 0 - 339321, 188602, "tourism")>>

\* Lists /api/destinations/popular can answer with
DestinationLists ==
    {<<Dest("Cape Town CBD", 0 - 339249, 184241, "business"),
       Dest("Table Mountain", 0 - 339628, 184098, "attraction")>>,
     <<Dest("V&A Waterfront", 0 - 339017, 184211, "shopping")>>,
     <<>>}

\* What response.json() is awaited on: a body that does not parse,
\* {status: 'error'}, {status: 'success'} without destinations, and
\* {status: 'success', destinations: [...]}
DestBodies ==
    {[valid |-> FALSE, status |-> "undefined", has_destinations |-> FALSE, destinations |-> <<>>],
     [valid |-> TRUE, status |-> "error", has_destinations |-> FALSE, destinations |-> <<>>],
     [valid |-> TRUE, status |-> "success", has_destinations |-> FALSE, destinations |-> <<>>]}
    \cup {[valid |-> TRUE, status |-> "success", has_destinations |-> TRUE, destinations |-> l] :
             l \in DestinationLists}

NoDestBody ==
    [valid |-> FALSE, status |-> "undefined", has_destinations |-> FALSE, destinations |-> <<>>]

DestEndpoints ==
    <<"http://localhost:8000/api/destinations/popular",
      "/api/destinations/popular",
      "http://traffic-api:8000/api/destinations/popular">>

DestInit ==
    /\ destinations = <<>>
    /\ destPc = "idle"
    /\ destIdx = 1
    /\ destBody = NoDestBody
    /\ destLog = <<>>

\* The request to the endpoint of the current iteration ended with `outcome`:
\* "rejected" (fetch threw), "notOk" (response.ok false), "badJson" (json()
\* threw), "refused" (the body failed the test of the loader), "accepted"
Ended(log, endpoint, outcome) == Append(log, [endpoint |-> endpoint, outcome |-> outcome])

\* The mount effect of RoutePlanner calls fetchDestinations
fetchDestinations ==
    /\ destPc = "idle"
    /\ destPc' = "fetch"
    /\ destIdx' = 1
    /\ destLog' = <<>>
    /\ UNCHANGED <<destinations, destBody>>

DestKeepOnExhaustion ==
    IF destIdx < Len(DestEndpoints)
    THEN /\ destIdx' = destIdx + 1
         /\ destPc' = "fetch"
         /\ UNCHANGED destinations
    ELSE /\ destPc' = "idle"
         /\ UNCHANGED <<destIdx, destinations>>

\* The loop goes on: the next endpoint, or the fallback after the loop
DestTryNextEndpoint ==
    IF destIdx < Len(DestEndpoints)
    THEN /\ destIdx' = destIdx + 1
         /\ destPc' = "fetch"
         /\ UNCHANGED destinations
    ELSE /\ destinations' = FallbackDestinations
         /\ destPc' = "idle"
         /\ UNCHANGED destIdx

\* fetch rejects: catch (err) { continue }
fetchDestinations_fetchRejected ==
    /\ destPc = "fetch"
    /\ DestTryNextEndpoint
    /\ destLog' = Ended(destLog, DestEndpoints[destIdx], "rejected")
    /\ UNCHANGED destBody

\* fetch resolves with response.ok false
fetchDestinations_responseNotOk ==
    /\ destPc = "fetch"
    /\ DestTryNextEndpoint
    /\ destLog' = Ended(destLog, DestEndpoints[destIdx], "notOk")
    /\ UNCHANGED destBody

\* fetch resolves with response.ok true: await response.json()
fetchDestinations_responseOk(b) ==
    /\ destPc = "fetch"
    /\ destPc' = "json"
    /\ destBody' = b
    /\ UNCHANGED <<destinations, destIdx, destLog>>

\* data.status === 'success' && data.destinations; an array is truthy, also
\* the empty one
AcceptsDestinations(data) == data.status = "success" /\ data.has_destinations

\* json() resolves: setDestinations(data.destinations) and return, or the
\* next iteration
fetchDestinations_jsonResolved ==
    /\ destPc = "json" /\ destBody.valid
    /\ IF AcceptsDestinations(destBody)
       THEN /\ destinations' = destBody.destinations
            /\ destPc' = "idle"
            /\ UNCHANGED destIdx
       ELSE DestTryNextEndpoint
    /\ destLog' = Ended(destLog, DestEndpoints[destIdx],
                        IF AcceptsDestinations(destBody) THEN "accepted" ELSE "refused")
    /\ destBody' = NoDestBody

\* json() rejects: catch (err) { continue }
fetchDestinations_jsonRejected ==
    /\ destPc = "json" /\ ~destBody.valid
    /\ DestTryNextEndpoint
    /\ destLog' = Ended(destLog, DestEndpoints[destIdx], "badJson")
    /\ destBody' = NoDestBody
(***************************************************************************)
(* Specifications.                                                         *)
(***************************************************************************)
Init ==
    /\ EngineInit /\ PlannerInit /\ StoreInit /\ AnalyticsInit /\ DemoInit
    /\ MapInit /\ DestInit

EngineNext ==
    \/ /\ \E seg \in SegmentIds, w \in SampleWeights : ApplySample(seg, w)
       /\ UNCHANGED <<PlannerVars, StoreVars, AnalyticsVars, DemoVars, MapVars, DestVars>>
    \/ /\ \E oc \in QueryOrigins, dc \in QueryDestinations, opts \in QueryOptions :
             PlanRoute(oc, dc, opts)
       /\ UNCHANGED <<PlannerVars, StoreVars, AnalyticsVars, DemoVars, MapVars, DestVars>>

PlannerNext ==
    \/ /\ \E d \in Destinations \cup {NullDestination} : SelectOrigin(d)
       /\ UNCHANGED <<EngineVars, StoreVars, AnalyticsVars, DemoVars, MapVars, DestVars>>
    \/ /\ \E d \in Destinations \cup {NullDestination} : SelectDestination(d)
       /\ UNCHANGED <<EngineVars, StoreVars, AnalyticsVars, DemoVars, MapVars, DestVars>>
    \/ /\ \E r \in PopularRoutes : selectPopularRoute(r)
       /\ UNCHANGED <<EngineVars, StoreVars, AnalyticsVars, DemoVars, MapVars, DestVars>>
    \/ /\ planRoute
       /\ UNCHANGED <<EngineVars, StoreVars, AnalyticsVars, DemoVars, MapVars, DestVars>>
    \/ /\ planRoute_fetchRejected
       /\ UNCHANGED <<EngineVars, StoreVars, AnalyticsVars, DemoVars, MapVars, DestVars>>
    \/ /\ planRoute_responseNotOk
       /\ UNCHANGED <<EngineVars, StoreVars, AnalyticsVars, DemoVars, MapVars, DestVars>>
    \/ /\ \E b \in ResponseBodies : planRoute_responseOk(b)
       /\ UNCHANGED <<EngineVars, StoreVars, AnalyticsVars, DemoVars, MapVars, DestVars>>
    \/ /\ planRoute_jsonResolved
       /\ UNCHANGED <<EngineVars, StoreVars, AnalyticsVars, DemoVars, MapVars, DestVars>>
    \/ /\ planRoute_jsonRejected
       /\ UNCHANGED <<EngineVars, StoreVars, AnalyticsVars, DemoVars, MapVars, DestVars>>

StoreNext ==
    \/ /\ \E p \in FreshPoints(now) : updateTrafficPoint(p)
       /\ UNCHANGED <<EngineVars, PlannerVars, AnalyticsVars, DemoVars, MapVars, DestVars>>
    \/ /\ \E data \in FreshArrays(now) : setTrafficData(data)
       /\ UNCHANGED <<EngineVars, PlannerVars, AnalyticsVars, DemoVars, MapVars, DestVars>>
    \/ /\ Render
       /\ UNCHANGED <<EngineVars, PlannerVars, AnalyticsVars, DemoVars, MapVars, DestVars>>
    \/ /\ Tick
       /\ UNCHANGED <<EngineVars, PlannerVars, AnalyticsVars, DemoVars, MapVars, DestVars>>

\* The live traffic store fed by the upstream stream of readings
IngestNext ==
    \/ /\ \E r \in Readings(now) : updateTrafficPoint(r)
       /\ UNCHANGED <<EngineVars, PlannerVars, AnalyticsVars, DemoVars, MapVars, DestVars>>
    \/ /\ Render
       /\ UNCHANGED <<EngineVars, PlannerVars, AnalyticsVars, DemoVars, MapVars, DestVars>>
    \/ /\ Tick
       /\ UNCHANGED <<EngineVars, PlannerVars, AnalyticsVars, DemoVars, MapVars, DestVars>>

\* The analytics screens
AnalyticsNext ==
    \/ /\ generateInsights
       /\ UNCHANGED <<EngineVars, PlannerVars, StoreVars, DemoVars, MapVars, DestVars>>
    \/ /\ \E seed \in Seeds : RunGeneratePredictions(seed)
       /\ UNCHANGED <<EngineVars, PlannerVars, StoreVars, DemoVars, MapVars, DestVars>>
    \/ /\ \E tf \in Timeframes, seed \in Seeds : SelectTimeframe(tf, seed)
       /\ UNCHANGED <<EngineVars, PlannerVars, StoreVars, DemoVars, MapVars, DestVars>>
    \/ /\ HourPasses
       /\ UNCHANGED <<EngineVars, PlannerVars, StoreVars, DemoVars, MapVars, DestVars>>

\* The demo start script and the App shell
DemoNext ==
    \/ /\ check_service_ready
       /\ UNCHANGED <<EngineVars, PlannerVars, StoreVars, AnalyticsVars, MapVars, DestVars>>
    \/ /\ check_service_wait
       /\ UNCHANGED <<EngineVars, PlannerVars, StoreVars, AnalyticsVars, MapVars, DestVars>>
    \/ /\ check_service_failed
       /\ UNCHANGED <<EngineVars, PlannerVars, StoreVars, AnalyticsVars, MapVars, DestVars>>
    \/ /\ PrintBanner
       /\ UNCHANGED <<EngineVars, PlannerVars, StoreVars, AnalyticsVars, MapVars, DestVars>>
    \/ /\ ConnectionTimerFires
       /\ UNCHANGED <<EngineVars, PlannerVars, StoreVars, AnalyticsVars, MapVars, DestVars>>
    \/ /\ UpstreamChanges
       /\ UNCHANGED <<EngineVars, PlannerVars, StoreVars, AnalyticsVars, MapVars, DestVars>>

\* The traffic map
MapNext ==
    \/ /\ \E r \in FetchRuns : fetchTrafficData(r)
       /\ UNCHANGED <<EngineVars, PlannerVars, StoreVars, AnalyticsVars, DemoVars, DestVars>>
    \/ /\ \E r \in FetchRuns, seed \in Seeds : fetchTrafficData_fetchRejected(r, seed)
       /\ UNCHANGED <<EngineVars, PlannerVars, StoreVars, AnalyticsVars, DemoVars, DestVars>>
    \/ /\ \E r \in FetchRuns, seed \in Seeds : fetchTrafficData_responseNotOk(r, seed)
       /\ UNCHANGED <<EngineVars, PlannerVars, StoreVars, AnalyticsVars, DemoVars, DestVars>>
    \/ /\ \E r \in FetchRuns, b \in MapBodies : fetchTrafficData_responseOk(r, b)
       /\ UNCHANGED <<EngineVars, PlannerVars, StoreVars, AnalyticsVars, DemoVars, DestVars>>
    \/ /\ \E r \in FetchRuns, seed \in Seeds : fetchTrafficData_jsonResolved(r, seed)
       /\ UNCHANGED <<EngineVars, PlannerVars, StoreVars, AnalyticsVars, DemoVars, DestVars>>
    \/ /\ \E r \in FetchRuns, seed \in Seeds : fetchTrafficData_jsonRejected(r, seed)
       /\ UNCHANGED <<EngineVars, PlannerVars, StoreVars, AnalyticsVars, DemoVars, DestVars>>

\* The loader of the destination list
DestNext ==
    \/ /\ fetchDestinations
       /\ UNCHANGED <<EngineVars, PlannerVars, StoreVars, AnalyticsVars, DemoVars, MapVars>>
    \/ /\ fetchDestinations_fetchRejected
       /\ UNCHANGED <<EngineVars, PlannerVars, StoreVars, AnalyticsVars, DemoVars, MapVars>>
    \/ /\ fetchDestinations_responseNotOk
       /\ UNCHANGED <<EngineVars, PlannerVars, StoreVars, AnalyticsVars, DemoVars, MapVars>>
    \/ /\ \E b \in DestBodies : fetchDestinations_responseOk(b)
       /\ UNCHANGED <<EngineVars, PlannerVars, StoreVars, AnalyticsVars, DemoVars, MapVars>>
    \/ /\ fetchDestinations_jsonResolved
       /\ UNCHANGED <<EngineVars, PlannerVars, StoreVars, AnalyticsVars, DemoVars, MapVars>>
    \/ /\ fetchDestinations_jsonRejected
       /\ UNCHANGED <<EngineVars, PlannerVars, StoreVars, AnalyticsVars, DemoVars, MapVars>>
\* The routing core
SpecEngine == Init /\ [][EngineNext]_vars

\* The route planner screen
Spec == Init /\ [][PlannerNext]_vars

\* The promise of the fetch awaited settles and planRoute resumes
FetchSettles ==
    /\ \/ planRoute_fetchRejected
       \/ planRoute_responseNotOk
       \/ \E b \in ResponseBodies : planRoute_responseOk(b)
    /\ UNCHANGED <<EngineVars, StoreVars, AnalyticsVars, DemoVars, MapVars, DestVars>>

\* The promise of response.json() settles and planRoute resumes
JsonSettles ==
    /\ planRoute_jsonResolved \/ planRoute_jsonRejected
    /\ UNCHANGED <<EngineVars, StoreVars, AnalyticsVars, DemoVars, MapVars, DestVars>>

\* The route planner screen, where the event loop resumes planRoute whenever the
\* promise it awaits has settled
FairSpec == Spec /\ WF_vars(FetchSettles) /\ WF_vars(JsonSettles)

\* The live traffic store
SpecStore == Init /\ [][StoreNext]_vars

\* The live traffic store under the upstream stream of readings
SpecIngest == Init /\ [][IngestNext]_vars

\* The analytics screens
SpecAnalytics == Init /\ [][AnalyticsNext]_vars

\* The demo start script and the App shell
SpecDemo == Init /\ [][DemoNext]_vars

\* The traffic map
SpecMap == Init /\ [][MapNext]_vars

\* The loader of the destination list
SpecDestinations == Init /\ [][DestNext]_vars

(***************************************************************************)
(* Properties of the routing core (checked under SpecEngine).              *)
(***************************************************************************)
Contiguous(path, on, dn) ==
    IF path = <<>> THEN on = dn
    ELSE /\ EdgeOf(path[1]).src = on
         /\ \A i \in 1..(Len(path) - 1) : EdgeOf(path[i]).dst = EdgeOf(path[i + 1]).src
         /\ EdgeOf(path[Len(path)]).dst = dn

\* The nodes reachable from the nodes of S
RECURSIVE ReachSet(_)
ReachSet(S) ==
    LET T == S \cup {e.dst : e \in {x \in Edges : x.src \in S}}
    IN  IF T = S THEN S ELSE ReachSet(T)

\* Every simple path from n to dn that avoids the nodes of `visited`
RECURSIVE PathsFrom(_, _, _)
PathsFrom(n, dn, visited) ==
    IF n = dn THEN {<<>>}
    ELSE UNION {{<<e.id>> \o p : p \in PathsFrom(e.dst, dn, visited \cup {n})} :
                    e \in {x \in Edges : x.src = n /\ x.dst \notin visited \cup {n}}}

OutsideCoverage(c) ==
    \A n \in Nodes : SqDist(NodePos[n], c) > MaxSnapDistance * MaxSnapDistance

Asked == request # NoRequest

InCoverage == Asked /\ ~OutsideCoverage(request.origin) /\ ~OutsideCoverage(request.dest)

OriginNode == NearestNode(request.origin)

DestNode == NearestNode(request.dest)

\* C1: for a request whose two coordinates are within coverage and whose
\* destination node can be reached, PlanRoute returns a route, and the edges of
\* every route returned form a contiguous path from the origin's resolved node
\* to the destination's resolved node.
C1_RouteIsContiguousPath ==
    /\ (InCoverage /\ DestNode \in ReachSet({OriginNode}))
          => response.status = "ok" /\ Len(response.routes) >= 1
    /\ response.status = "ok"
          => /\ InCoverage
             /\ \A i \in 1..Len(response.routes) :
                    Contiguous(response.routes[i].edges, OriginNode, DestNode)

C1_Witness ==
    /\ response.status = "ok"
    /\ Len(response.routes) = 2
    /\ Len(response.routes[1].edges) = 2

\* C2: the first route returned has the minimum total cost over all paths from
\* the origin node to the destination node, under the cost function of the
\* request and the current weights; from A to B, with A->C and C->B at weight
\* 1.0 and A->B at weight 1.0 or 3.0, it is the route via C, of total cost 8.
C2_MinimumCostRoute ==
    response.status = "ok" =>
        /\ \A p \in PathsFrom(OriginNode, DestNode, {}) :
               response.routes[1].total_cost
                   <= SumOver(p, CostFn(Snapshot(weights), request.options, {}))
        /\ (/\ OriginNode = "A" /\ DestNode = "B"
            /\ request.options.optimize_for = "time"
            /\ weights["AB"] \in {1, 3}
            /\ weights["AC"] = 1 /\ weights["CB"] = 1)
              => /\ response.routes[1].edges = <<"AC", "CB">>
                 /\ response.routes[1].total_cost = 8

C2_Witness ==
    /\ response.status = "ok"
    /\ weights["AB"] = 3 /\ weights["CB"] = 1
    /\ request.options.optimize_for = "time"
    /\ response.routes[1].edges = <<"AC", "CB">>
    /\ response.routes[1].total_cost = 8

C6_RaisingAWeightIsMonotone ==
    [][\A id \in EdgeIds :
          (/\ weights'[id] > weights[id]
           /\ \A o \in EdgeIds \ {id} : weights'[o] = weights[o]
           /\ response.status = "ok")
          => LET after == PlanRouteOutcome(request.origin, request.dest,
                                           request.options, weights')
             IN  /\ after.status = "ok"
                 /\ after.routes[1].total_cost >= response.routes[1].total_cost]_vars

C6_Witness ==
    /\ weights["CB"] = 3 /\ weights["AB"] = 1
    /\ request.options.optimize_for = "time"
    /\ response.status = "ok"
    /\ response.routes[1].edges = <<"AB">>
    /\ response.routes[1].total_cost = 10

\* C8: when the nearest node of the origin or of the destination coordinate is
\* farther away than the maximum snap distance, PlanRoute fails with
\* UnresolvableLocation and returns no route.
C8_OutsideCoverageIsUnresolvable ==
    (Asked /\ (OutsideCoverage(request.origin) \/ OutsideCoverage(request.dest)))
        => response = ErrorResult("UnresolvableLocation")

C8_Witness ==
    /\ request.origin = [x |-> 0, y |-> 0]
    /\ request.dest = [x |-> 54, y |-> 0]
    /\ response.reason = "UnresolvableLocation"

\* C9: when both coordinates resolve and the destination node cannot be reached
\* from the origin node, the result is the structured error NoRouteFound, with
\* no route.
C9_DisconnectedIsNoRouteFound ==
    (InCoverage /\ DestNode \notin ReachSet({OriginNode}))
        => response = ErrorResult("NoRouteFound")

C9_Witness ==
    /\ InCoverage
    /\ OriginNode = "A" /\ DestNode = "E"
    /\ response.reason = "NoRouteFound"

(***************************************************************************)
(* Properties of the route planner screen (checked under Spec, FairSpec).  *)
(***************************************************************************)
\* C3: when the body received is a structured {status: "error", reason}, the
\* planner shows the reason and does not store the body as its route result.
C3_ErrorResultShownNotStored ==
    [][(pc = "json" /\ body.valid /\ body.data.status = "error" /\ pc' # "json")
          => (error' = body.data.reason /\ routeResult' = routeResult)]_vars

\* C4: every planRoute invocation ends: loading, once true, becomes false again.
C4_PlanRouteEnds == (loading = TRUE) ~> (loading = FALSE)

(***************************************************************************)
(* Properties of the live traffic store (checked under SpecStore).         *)
(***************************************************************************)
\* C7: an entry whose segment received no point for more than 2 * HalfLife is
\* read at the free-flow level.
C7_SilentEntriesDecay ==
    \A i \in 1..Len(trafficData) :
        now - lastSample[trafficData[i].road_segment_id] > 2 * HalfLife
            => trafficData[i].congestion_level = FreeFlowLevel

\* C10: every entry a reader sees is one whole submitted point, and once the
\* queued updates are rendered the store holds, for each segment, exactly the
\* last point the calls gave it: no update is lost to an update of another
\* segment made in the same render cycle.
C10_WholeEntriesNoLostUpdate ==
    /\ \A i \in 1..Len(trafficData) : WellFormed(trafficData[i])
    /\ updateQueue = <<>> =>
          \A id \in StoreSegments :
              IF expected[id] = NullPoint
              THEN FindIndex(trafficData, id) = 0
              ELSE /\ FindIndex(trafficData, id) > 0
                   /\ trafficData[FindIndex(trafficData, id)] = expected[id]

C10_Witness ==
    /\ updateQueue = <<>>
    /\ now = 1
    /\ trafficData = <<Point("CT_001", 80, 1), Point("CT_002", 0, 1)>>

(***************************************************************************)
(* Properties of the ingestion of readings (checked under SpecIngest).     *)
(***************************************************************************)
\* The state every reader sees once the queued updates are rendered
Pending == ProcessQueue(trafficData, updateQueue)

\* The step is a call updateTrafficPoint(p)
Delivers(p) == updateQueue' = Append(updateQueue, FunctionalUpdate(p))

\* The validation of spec.md 4.3 for a reading that arrives at time t
ValidReading(p, t) ==
    /\ t - p.timestamp <= StalenessWindow
    /\ p.flow_speed >= 0
    /\ p.flow_speed <= BaseSpeed

\* C11: delivering again the reading that was the last one delivered for its
\* segment (same segment id, same timestamp, same values) leaves the store, once
\* rendered, in the state it had after the first delivery.
C11_DuplicateDeliveryIsHarmless ==
    [][\A p \in Readings(now) :
          (Delivers(p) /\ expected[p.road_segment_id] = p)
              => ProcessQueue(trafficData', updateQueue') = Pending]_vars

C11_Witness ==
    /\ trafficData = <<Point("CT_002", 80, 0), Point("CT_001", 80, 0)>>
    /\ updateQueue = <<FunctionalUpdate(Point("CT_001", 80, 1)),
                       FunctionalUpdate(Point("CT_001", 80, 1))>>

\* C12: two readings of one segment with different timestamps, delivered one
\* after the other, leave the store in the state the opposite order of delivery
\* leaves it in.
C12_ArrivalOrderDoesNotMatter ==
    \A i \in 1..(Len(updateQueue) - 1) :
        LET u == updateQueue[i]
            v == updateQueue[i + 1]
        IN  (/\ u.point.road_segment_id = v.point.road_segment_id
             /\ u.point.timestamp # v.point.timestamp)
            => ProcessQueue(trafficData, SubSeq(updateQueue, 1, i + 1))
                 = ProcessQueue(trafficData, SubSeq(updateQueue, 1, i - 1) \o <<v, u>>)

\* C13: the delivery of a reading that is older than the staleness window, or
\* whose speed is negative or above anything the segment allows, leaves the
\* store, once rendered, as it was.
C13_InvalidReadingsAreDropped ==
    [][\A p \in Readings(now) :
          (Delivers(p) /\ ~ValidReading(p, now)) => ProcessQueue(trafficData', updateQueue') = Pending]_vars

(***************************************************************************)
(* Properties of the requests planRoute sends (checked under Spec).        *)
(***************************************************************************)
\* The requests were sent to the endpoints in their configured order, one each
InConfiguredOrder ==
    /\ Len(contacted) <= Len(Endpoints)
    /\ \A i \in 1..Len(contacted) : contacted[i].endpoint = Endpoints[i]

\* C14 (as stated): one planRoute invocation contacts the endpoints in the fixed
\* order, at most once each, and contacts no endpoint after one that answered
\* HTTP-OK.
C14_StopsAtFirstOkResponse ==
    /\ InConfiguredOrder
    /\ \A i \in 1..(Len(contacted) - 1) : contacted[i].outcome \in {"rejected", "notOk"}

\* C14 (amended): one planRoute invocation contacts the endpoints in the fixed
\* order, at most once each; it contacts the next endpoint only after the
\* request before it threw, answered non-OK, or answered HTTP-OK with a body
\* that json() could not parse, and it ends at the first HTTP-OK response whose
\* body parses, or after all three endpoints failed.
C14_StopsAtFirstParsedOkResponse ==
    /\ InConfiguredOrder
    /\ \A i \in 1..(Len(contacted) - 1) : contacted[i].outcome \in {"rejected", "notOk", "badJson"}
    /\ (pc = "idle" /\ contacted # <<>>)
          => \/ contacted[Len(contacted)].outcome = "ok"
             \/ /\ Len(contacted) = Len(Endpoints)
                /\ contacted[Len(contacted)].outcome \in {"rejected", "notOk", "badJson"}

C14_Witness ==
    /\ pc = "idle"
    /\ Len(contacted) = 2
    /\ contacted[1].outcome = "notOk"
    /\ contacted[2].outcome = "ok"
    /\ routeResult.route_id = "optimized_route"

\* C20: when the last endpoint has failed too, planRoute ends with a route
\* result made for the selected origin and destination.
C20_MockRouteWhenAllEndpointsFail ==
    [][(/\ pc # "idle" /\ pc' = "idle"
        /\ \A i \in 1..Len(contacted') : contacted'[i].outcome \in {"rejected", "notOk"})
          => (routeResult' # NullRoute /\ routeResult' # routeResult)]_vars

\* C19: whenever the traffic chip of the route details is shown, its label and
\* its color agree: 'light' is success, 'moderate' is warning, and any other
\* label is error, for a traffic_conditions that is a string and for one that
\* is an object.
C19_ChipLabelAndColorAgree ==
    ChipShown(routeResult) =>
        LET label == ChipLabel(routeResult.traffic_conditions)
            color == ChipColor(routeResult.traffic_conditions)
        IN  color = (IF label = "light" THEN "success"
                     ELSE IF label = "moderate" THEN "warning"
                     ELSE "error")

(***************************************************************************)
(* Properties of the analytics screens (checked under SpecAnalytics).      *)
(***************************************************************************)
\* C16: once generatePredictions has run, under every timeframe, the dashboard
\* holds exactly 8 predictions, one for each of CT_001..CT_008 and no id twice,
\* and exactly 12 hourly entries for consecutive hours of the day, the first of
\* them the hour at which the run was made.
C16_EightSegmentsTwelveHours ==
    /\ [](predictionsLoading = FALSE =>
            /\ Len(predictions) = 8
            /\ {predictions[k].road_segment_id : k \in 1..Len(predictions)}
                 = {"CT_001", "CT_002", "CT_003", "CT_004", "CT_005", "CT_006", "CT_007", "CT_008"}
            /\ \A j, k \in 1..Len(predictions) :
                   predictions[j].road_segment_id = predictions[k].road_segment_id => j = k
            /\ Len(hourlyData) = 12
            /\ \A n \in 1..(Len(hourlyData) - 1) :
                   hourlyData[n + 1].hour = (hourlyData[n].hour + 1) % 24
            /\ \A n \in 1..Len(hourlyData) : hourlyData[n].hour \in 0..23)
    /\ [][hourlyData' # hourlyData => hourlyData'[1].hour = clock]_vars

C16_Witness ==
    /\ predictionsLoading = FALSE
    /\ selectedTimeframe = "12hours"
    /\ Len(predictions) = 8
    /\ hourlyData[1].hour = 18
    /\ hourlyData[12].hour = 5

\* C17: every confidence the dashboard holds, of a road segment and of a
\* forecast hour, lies between 85% and 95%.
C17_ConfidenceWithin85And95 ==
    /\ \A k \in 1..Len(predictions) :
           predictions[k].confidence >= 850 /\ predictions[k].confidence <= 950
    /\ \A n \in 1..Len(hourlyData) :
           hourlyData[n].confidence >= 850 /\ hourlyData[n].confidence <= 950

\* The hours of the two windows 7-9 AM and 5-7 PM
PeakHours == (7..9) \cup (17..19)

C15_ReconnectWithBackoff ==
    /\ [](upstream = "down" => connectionStatus # "connected")
    /\ [](\A sv \in DOMAIN ready : ready[sv] # "failed")
    /\ [][(attempt' = attempt + 1 /\ sleepFor > 0) => sleepFor' > sleepFor]_vars

(***************************************************************************)
(* Properties of updateTrafficPoint (checked under SpecStore).             *)
(***************************************************************************)
DistinctIds(data) ==
    \A i, j \in 1..Len(data) : data[i].road_segment_id = data[j].road_segment_id => i = j

\* C25: the road_segment_ids of the store stay pairwise distinct, and a call
\* updateTrafficPoint(p) either replaces the entry of p's segment where it is,
\* with the length and every other entry as they were, or, when the segment has
\* no entry, puts p at the end, with the length one more and every entry there
\* was as it was.
C25_ReplaceInPlaceOrAppend ==
    /\ [](DistinctIds(trafficData) /\ DistinctIds(Pending))
    /\ [][\A p \in FreshPoints(now) :
            Delivers(p) =>
                LET before == Pending
                    after == ProcessQueue(trafficData', updateQueue')
                    k == FindIndex(before, p.road_segment_id)
                IN  IF k > 0
                    THEN /\ Len(after) = Len(before)
                         /\ after[k] = p
                         /\ \A i \in 1..Len(before) : i # k => after[i] = before[i]
                    ELSE after = before \o <<p>>]_vars

C25_Witness ==
    /\ trafficData = <<Point("CT_002", 0, 0), Point("CT_001", 0, 0)>>
    /\ updateQueue = <<FunctionalUpdate(Point("CT_002", 80, 1))>>

(***************************************************************************)
(* Properties of the demo start script (checked under SpecDemo).           *)
(***************************************************************************)
\* check_service makes at most 30 attempts, returns 0 at a successful attempt
\* and returns 1 only after the 30th attempt failed
CheckServiceAttempts ==
    /\ [](attempt <= 31)
    /\ [][\A sv \in DOMAIN ready :
            /\ (ready[sv] = "unknown" /\ ready'[sv] = "failed") => attempt = 31
            /\ (ready[sv] = "unknown" /\ ready'[sv] = "ready") => attempt <= 30]_vars

\* C23: the banner is printed only when both check_service calls returned 0;
\* and check_service makes at most 30 attempts, returns 0 at the first
\* successful attempt and returns 1 after the 30th failed attempt.
C23_BannerOnlyWhenBothReady ==
    /\ [](banner => \A sv \in DOMAIN ready : ready[sv] = "ready")
    /\ CheckServiceAttempts

(***************************************************************************)
(* Properties of the traffic map (checked under SpecMap).                  *)
(***************************************************************************)
\* The run r of fetchTrafficData completes in this step
Completes(r) == fetchRun[r].pc # "idle" /\ fetchRun'[r].pc = "idle"

\* The 10 mock points CT_001..CT_010
IsMockData(data) ==
    /\ Len(data) = 10
    /\ {data[i].road_segment_id : i \in 1..Len(data)}
         = {"CT_001", "CT_002", "CT_003", "CT_004", "CT_005",
            "CT_006", "CT_007", "CT_008", "CT_009", "CT_010"}

\* C21: when a run of fetchTrafficData completes, trafficData is not empty: it
\* is the traffic_data of the endpoint the run stopped at, which answered OK
\* with a list that is not empty, and in every other case the 10 mock points
\* CT_001..CT_010; and once not empty, trafficData is never empty again.
C21_TrafficDataNeverEmptyAfterFetch ==
    /\ [][\A r \in FetchRuns :
            Completes(r) =>
                /\ mapTrafficData' # <<>>
                /\ IF /\ fetchRun[r].pc = "json"
                      /\ fetchRun[r].body.valid /\ fetchRun[r].body.has_list
                      /\ fetchRun[r].body.traffic_data # <<>>
                   THEN mapTrafficData' = fetchRun[r].body.traffic_data
                   ELSE /\ IsMockData(mapTrafficData')
                        /\ fetchRun[r].idx = 3]_vars
    /\ [][mapTrafficData # <<>> => mapTrafficData' # <<>>]_vars
    /\ [](\A r \in FetchRuns : fetchRun[r].idx \in 1..3)

C21_Witness ==
    /\ IsMockData(mapTrafficData)
    /\ fetchRun["mount"].pc = "idle"
    /\ fetchRun["interval"].pc = "json"
    /\ fetchRun["interval"].idx = 2
    /\ fetchRun["interval"].body.traffic_data = <<>>

\* The point c lies within DEFAULT_BOUNDS
InDefaultBounds(c) ==
    /\ c.lat >= DEFAULT_BOUNDS.south /\ c.lat <= DEFAULT_BOUNDS.north
    /\ c.lng >= DEFAULT_BOUNDS.west /\ c.lng <= DEFAULT_BOUNDS.east

\* The centroid of data lies within DEFAULT_BOUNDS (no rounding: the sums are
\* compared with the bounds times the length)
WithinDefaultBounds(data) ==
    /\ SumLat(data) >= DEFAULT_BOUNDS.south * Len(data)
    /\ SumLat(data) <= DEFAULT_BOUNDS.north * Len(data)
    /\ SumLng(data) >= DEFAULT_BOUNDS.west * Len(data)
    /\ SumLng(data) <= DEFAULT_BOUNDS.east * Len(data)

\* C24: mapCenter lies within DEFAULT_BOUNDS: it is DEFAULT_CENTER while no
\* data is loaded, the centroid of trafficData when the centroid is within the
\* bounds, and DEFAULT_CENTER otherwise.
C24_MapCenterWithinBounds ==
    /\ InDefaultBounds(mapCenter)
    /\ mapTrafficData = <<>> => mapCenter = DEFAULT_CENTER
    /\ mapTrafficData # <<>> =>
          mapCenter = (IF WithinDefaultBounds(mapTrafficData)
                       THEN Centroid(mapTrafficData)
                       ELSE DEFAULT_CENTER)

(***************************************************************************)
(* Properties of the destination loader (checked under SpecDestinations).  *)
(***************************************************************************)
\* C22: when fetchDestinations completes, the list of the selectors is not
\* empty: it is the list of the first endpoint, in the configured order, that
\* answered OK with status 'success', and the 8 fallback entries when no
\* endpoint did.
C22_DestinationsNeverEmptyAfterFetch ==
    /\ [](\A i \in 1..Len(destLog) : destLog[i].endpoint = DestEndpoints[i])
    /\ [][(destPc # "idle" /\ destPc' = "idle") =>
            /\ destinations' # <<>>
            /\ \A i \in 1..(Len(destLog') - 1) : destLog'[i].outcome # "accepted"
            /\ IF destLog'[Len(destLog')].outcome = "accepted"
               THEN destinations' = destBody.destinations
               ELSE /\ destinations' = FallbackDestinations
                    /\ Len(destinations') = 8
                    /\ Len(destLog') = 3]_vars

====
